---- MODULE Spec2Model ----
(***************************************************************************)
(* Model of the FaceRecApps tools:                                         *)
(*   - recognize-image   (src/src/FaceRecognitionImage.cpp)                *)
(*   - name-to-portraits (src/src/Name2Protraits.cpp, first program)       *)
(*   - face-collection   (src/src/Name2Protraits.cpp, second program)      *)
(* The file system, the detector, the classifier and the keyboard are the  *)
(* environment; their answers are drawn from small sets.                   *)
(***************************************************************************)
EXTENDS Integers, Sequences, FiniteSets, TLC

\* ---------------------------------------------------------------- constants
STD_PROTRAIT_SIZE == 256
STD_FACE_REC_SIZE == 64
STD_DETECT_FRAME_WIDTH == 320
STD_DETECT_FRAME_HEIGHT == 240

DIRITEM_OTHER == 0
DIRITEM_FILE == 1
DIRITEM_DIR == 2

\* ------------------------------------------------------------------- bounds
\* most image files in one regular person directory
MaxImgs == 2
\* most (non dot) entries directly under faces/ or protraits/
MaxTop == 2

\* ------------------------------------------------------------- file system
\* A name is a non-empty sequence of one-character strings.
NameAl == <<"a", "l">>
NameBo == <<"b", " ", "o">>
NameHid == <<".", "h">>
NameCy == <<"c", "y">>
Digit == <<"0", "1", "2", "3", "4", "5", "6", "7", "8", "9">>

\* What readdir reports for an entry (d_type) together with what a symbolic
\* link points to.
Kinds == {"reg", "dir", "fifo", "lnk_reg", "lnk_dir", "lnk_missing"}

\* A directory entry.  w, h, ch: the raster a decoder finds in the file
\* (w = 0: not an image).  openable, entries: for a directory.
Entry(name, kind, w, h, ch, openable, entries) ==
  [name |-> name, kind |-> kind, w |-> w, h |-> h, ch |-> ch,
   openable |-> openable, entries |-> entries]

ImgFile(j) == Entry(<<"f", Digit[j + 1]>>, "reg", 60 + 20 * j, 50 + 15 * j, 1 + 2 * (j % 2), FALSE, <<>>)
HiddenImg == Entry(<<".", "f">>, "reg", 64, 64, 1, FALSE, <<>>)
BadImg == Entry(<<"t", "x", "t">>, "reg", 0, 0, 0, FALSE, <<>>)
SubDir == Entry(<<"s", "u", "b">>, "dir", 0, 0, 0, TRUE, <<>>)
Broken == Entry(<<"l", "n", "k">>, "lnk_missing", 0, 0, 0, FALSE, <<>>)
LnkImg == Entry(<<"l", "i">>, "lnk_reg", 64, 64, 3, FALSE, <<>>)
Fifo == Entry(<<"p", "i", "p", "e">>, "fifo", 0, 0, 0, FALSE, <<>>)

\* The contents a person directory may have: 0..MaxImgs images, or one of a
\* few irregular listings.
RegularListing(m) == [j \in 1..m |-> ImgFile(j)]
IrregularListings ==
  { <<HiddenImg, ImgFile(1)>>, <<SubDir, ImgFile(1)>>, <<ImgFile(1), Broken>>,
    <<BadImg>>, <<LnkImg, Fifo>> }
PersonListings == { RegularListing(m) : m \in 0..MaxImgs } \cup IrregularListings

\* A directory as the programs see it.
Dir(exists, openable, entries) ==
  [exists |-> exists, openable |-> openable, entries |-> entries]
NoDir == Dir(FALSE, FALSE, <<>>)

\* ------------------------------------------------------- Directory Catalog
\* stat(2) follows symbolic links: the mode of what the path resolves to, or
\* -1 when it resolves to nothing.
S_ISREG(kind) == kind \in {"reg", "lnk_reg"}
S_ISDIR(kind) == kind \in {"dir", "lnk_dir"}
stat(e) == IF e.kind = "lnk_missing" THEN -1 ELSE 0

\* readdir: the entries "." and "..", then the directory's own.
Dot == Entry(<<".">>, "dir", 0, 0, 0, TRUE, <<>>)
DotDot == Entry(<<".", ".">>, "dir", 0, 0, 0, TRUE, <<>>)
readdir(d) == <<Dot, DotDot>> \o d.entries

itemType(e) ==
  IF S_ISDIR(e.kind) THEN DIRITEM_DIR
  ELSE IF S_ISREG(e.kind) THEN DIRITEM_FILE
  ELSE DIRITEM_OTHER

\* The while loop of traverseDirectory from raw entry i on.  open: directory
\* handles still open when the call returns (there is no closedir).
RECURSIVE readLoop(_, _, _, _)
readLoop(raw, i, items, types) ==
  IF i > Len(raw) THEN [rc |-> 0, items |-> items, types |-> types, open |-> 1]
  ELSE IF raw[i].name[1] = "." THEN readLoop(raw, i + 1, items, types)
  ELSE IF stat(raw[i]) = -1
    THEN [rc |-> -1, items |-> items, types |-> types, open |-> 1]
  ELSE readLoop(raw, i + 1, Append(items, raw[i].name), Append(types, itemType(raw[i])))

opendirFails(d) == ~d.exists \/ ~d.openable

traverseDirectory(d) ==
  IF opendirFails(d)
    THEN [rc |-> -1, items |-> <<>>, types |-> <<>>, open |-> 0]
    ELSE readLoop(readdir(d), 1, <<>>, <<>>)

\* The directory a path <dir>/<name> names.
Range(s) == { s[i] : i \in DOMAIN s }
HasEntry(d, name) == \E e \in Range(d.entries) : e.name = name
EntryNamed(d, name) == CHOOSE e \in Range(d.entries) : e.name = name
AsDir(e) == Dir(TRUE, S_ISDIR(e.kind) /\ e.openable, e.entries)

\* ------------------------------------------------------ external imaging
EmptyMat == [cols |-> 0, rows |-> 0, channels |-> 1]
\* cv::imread: an empty Mat when the file does not decode; flag 0 asks for
\* one channel, the default flag for three.
imread(e, flag) ==
  IF e.w = 0 \/ e.h = 0 THEN EmptyMat
  ELSE [cols |-> e.w, rows |-> e.h, channels |-> IF flag = 0 THEN 1 ELSE 3]
\* cv::resize to Size(w, h): throws cv::Exception on an empty source.
resizeThrows(src) == src.cols = 0 \/ src.rows = 0
resize(src, w, h) == [cols |-> w, rows |-> h, channels |-> src.channels]

\* ------------------------------------------------------ std::map helpers
EmptyMap == [k \in {} |-> <<>>]
\* An insert that overwrites the value of a key already present.
MapInsert_overwrite(m, k, v) == (k :> v) @@ m
\* map::insert(pair): no effect when the key is present.
MapInsert(m, k, v) == IF k \in DOMAIN m THEN m ELSE (k :> v) @@ m

\* ---------------------------------------------------- Face Dataset Loader
\* pushSample without the resize: the image is stored as decoded.
pushSample_noResize(st, img_original, i, pname) ==
  [st EXCEPT !.images = Append(@, img_original),
             !.labels = Append(@, i),
             !.names = MapInsert(@, i, pname)]

\* pushSample labelling from 1: the loop index taken one too far.
pushSample_fromOne(st, img_original, i, pname) ==
  [st EXCEPT !.images = Append(@, resize(img_original, STD_FACE_REC_SIZE, STD_FACE_REC_SIZE)),
             !.labels = Append(@, i + 1),
             !.names = MapInsert(@, i + 1, pname)]

\* The three push/insert statements of the inner loop, with the resize.
pushSample(st, img_original, i, pname) ==
  [st EXCEPT !.images = Append(@, resize(img_original, STD_FACE_REC_SIZE, STD_FACE_REC_SIZE)),
             !.labels = Append(@, i),
             !.names = MapInsert(@, i, pname)]

\* The inner for loop of loadFaceData over the person directory pd, from
\* item j on; i is the outer loop's index (the label).
RECURSIVE fileLoop(_, _, _, _, _, _, _)
fileLoop(st, i, pname, pd, items, types, j) ==
  IF j > Len(items) THEN st
  ELSE IF types[j] # DIRITEM_FILE THEN fileLoop(st, i, pname, pd, items, types, j + 1)
  ELSE LET img_original == imread(EntryNamed(pd, items[j]), 0) IN
       IF resizeThrows(img_original) THEN [st EXCEPT !.thrown = TRUE]
       ELSE fileLoop(pushSample(st, img_original, i, pname),
                     i, pname, pd, items, types, j + 1)

\* The outer for loop of loadFaceData from item i (1-based here, label i-1).
RECURSIVE dirLoop(_, _, _, _, _)
dirLoop(st, fd, items, types, i) ==
  IF i > Len(items) THEN st
  ELSE IF types[i] # DIRITEM_DIR THEN dirLoop(st, fd, items, types, i + 1)
  ELSE LET pd == AsDir(EntryNamed(fd, items[i]))
           r == traverseDirectory(pd)
           st1 == [st EXCEPT !.open = @ + r.open]
       IN IF r.rc < 0 THEN [st1 EXCEPT !.thrown = TRUE]
          ELSE LET st2 == fileLoop(st1, i - 1, items[i], pd, r.items, r.types, 1)
               IN IF st2.thrown THEN st2 ELSE dirLoop(st2, fd, items, types, i + 1)

\* loadFaceData(datapath, images, labels, names) on the faces directory fd:
\* the containers as the call leaves them, and whether it threw.
loadFaceData(fd) ==
  LET r == traverseDirectory(fd)
      st0 == [thrown |-> FALSE, images |-> <<>>, labels |-> <<>>,
              names |-> EmptyMap, open |-> r.open]
  IN IF r.rc < 0 THEN [st0 EXCEPT !.thrown = TRUE]
     ELSE dirLoop(st0, fd, r.items, r.types, 1)


\* ------------------------------------------------- inputs of the programs
NamePool == {NameAl, NameBo, NameHid}

\* What an entry directly under faces/ or protraits/ may be, given the
\* listings ls a person directory may have (its name is set below).
TopContents(ls) ==
  { Entry(<<"x">>, "dir", 0, 0, 0, TRUE, l) : l \in ls }
  \cup { Entry(<<"x">>, "dir", 0, 0, 0, FALSE, <<>>),
         Entry(<<"x">>, "reg", 0, 0, 0, FALSE, <<>>),
         Entry(<<"x">>, "lnk_missing", 0, 0, 0, FALSE, <<>>) }
TopEntries(ls) == { [c EXCEPT !.name = n] : n \in NamePool, c \in TopContents(ls) }
DistinctNames(s) == \A a, b \in DOMAIN s : a # b => s[a].name # s[b].name
TopListings(ls) ==
  UNION { { s \in [1..n -> TopEntries(ls)] : DistinctNames(s) } : n \in 0..MaxTop }
Trees(ls) ==
  { NoDir, Dir(TRUE, FALSE, <<>>) } \cup { Dir(TRUE, TRUE, l) : l \in TopListings(ls) }
FacesTrees == Trees(PersonListings)

\* Rectangles the detector may report, and the detections of one image.
MaxFaces == 2
Rect(x, y, width, height) == [x |-> x, y |-> y, width |-> width, height |-> height]
\* the k-th rectangle of a detection pass
RectAt(k) == Rect(7 + 31 * k, 5 + 23 * k, 30 + 3 * k, 30 + 3 * k)
Detections == { [k \in 1..n |-> RectAt(k)] : n \in 0..MaxFaces }

\* ------------------------------------------------------------ text output
\* A stream holds pieces: a literal the code writes (none holds white
\* space), a number, or one character of a name.
Lit(s) == [t |-> "lit", s |-> s]
Num(v) == [t |-> "num", v |-> v]
Chr(c) == [t |-> "chr", c |-> c]
NamePieces(name) == [k \in 1..Len(name) |-> Chr(name[k])]
isspace(p) == p.t = "chr" /\ p.c = " "

\* operator>>(istream&, string&): skip leading white space, then take
\* characters up to the next white space; nothing is taken from a stream
\* that holds no other character, and the string keeps its value.
RECURSIVE skipws(_)
skipws(ss) == IF ss # <<>> /\ isspace(Head(ss)) THEN skipws(Tail(ss)) ELSE ss
RECURSIVE takeword(_)
takeword(ss) ==
  IF ss = <<>> \/ isspace(Head(ss)) THEN <<>> ELSE <<Head(ss)>> \o takeword(Tail(ss))
extract(ss) == takeword(skipws(ss))


\* ------------------------------------------------------------------ state
VARIABLES
  prog,          \* which program runs: "rec", "n2p" or "live"
  pc,            \* its position in main
  term,          \* how it ended: "none", "exit", "return", "uncaught", "crash"
  exitStatus,    \* its exit status once pc = "done"
  argc,
  faces,         \* <data_path>/faces
  protraits,     \* <data_path>/protraits
  openDirs,      \* directory handles the process holds open
  images, labels, names,
  im_width, im_height,
  model,         \* the recognizer: whether trained, and the labels and the
                 \* number of images of its last training
  dets,          \* the vector faces of the current image or frame
  fi,            \* the loop variable i over dets
  ssInfo,        \* the stringstream the results are written to
  outFile,       \* the information file: whether written, and its pieces
  outImage,      \* whether the annotated image was written
  predLog,       \* the predictions made for the current image or frame
  shown,         \* the boxes and names reported for the current image or frame
  cause,         \* why the program ended, once pc = "done"
  dir_data,      \* name-to-portraits: argv[1]
  name,          \* name-to-portraits: argv[2]
  expectName,    \* face-collection: the name typed at the prompt
  name2label,
  saveFaceFlag, saveProtraitFlag, saveImageCount,
  prediction,    \* the classifier's answer for the current face
  frame,         \* size of the frames the capture device delivers
  saved          \* the image files written by the session, in order

fsVars == <<faces, protraits>>
dataVars == <<images, labels, names>>
dimVars == <<im_width, im_height>>
outVars == <<ssInfo, outFile, outImage>>
vars == <<prog, pc, term, exitStatus, argc, faces, protraits, openDirs, images,
          labels, names, im_width, im_height, model, dets, fi, ssInfo, outFile,
          outImage, predLog, dir_data, name, expectName, name2label,
          saveFaceFlag, saveProtraitFlag, saveImageCount, prediction, frame,
          saved, shown, cause>>
logVars == <<predLog, shown>>
n2pVars == <<dir_data, name>>
flagVars == <<saveFaceFlag, saveProtraitFlag, saveImageCount>>
liveVars == <<expectName, name2label, flagVars, prediction, frame, saved>>

\* exit(status), return status from main, an exception nothing catches
\* (std::terminate, SIGABRT) and a crash on an invalid read (SIGSEGV).
\* why names the statement that ended the program.
Terminate(how, status, why) ==
  pc' = "done" /\ term' = how /\ exitStatus' = status /\ cause' = why
exit(status, why) == Terminate("exit", status, why)
return(status, why) == Terminate("return", status, why)
uncaught(why) == Terminate("uncaught", 134, why)
crash(why) == Terminate("crash", 139, why)
goto(l) == pc' = l /\ UNCHANGED <<term, exitStatus, cause>>

Untrained == [trained |-> FALSE, labels |-> <<>>, n |-> 0, runs |-> 0]

\* ----------------------------------------------------- external recognizer
\* FaceRecognizer::train of the Fisherfaces model throws cv::Exception on
\* empty training data and on fewer than two classes.
trainThrows(imgs, lbls) == Len(imgs) = 0 \/ Cardinality(Range(lbls)) < 2
\* The model after one more training: the labels and the number of images
\* it was given, and how many trainings it has had.
trained(m, imgs, lbls) ==
  [trained |-> TRUE, labels |-> lbls, n |-> Len(imgs), runs |-> m.runs + 1]
\* FaceRecognizer::predict: a label of the training set, or -1.
Predictions(m) == Range(m.labels) \cup {-1}

\* A lookup that leaves the name of a missing key to chance.
MapIndex_noDefault(m, k) == IF k \in DOMAIN m THEN m ELSE (k :> <<"?">>) @@ m

\* map::operator[]: a missing key is inserted with an empty string.
MapIndex(m, k) == IF k \in DOMAIN m THEN m ELSE (k :> <<>>) @@ m

\* ------------------------------------------- recognize-image (batch) main
\* What an invalid read of images[0] on an empty vector may leave in
\* im_width and im_height when it does not crash.
GarbageDims == {0, STD_FACE_REC_SIZE}

RecArgs ==
  /\ prog = "rec" /\ pc = "args"
  /\ IF argc < 5 THEN exit(1, "usage") ELSE goto("access")
  /\ UNCHANGED <<prog, argc, fsVars, openDirs, dataVars, dimVars, model, dets, fi,
                 outVars, logVars, n2pVars, liveVars>>

RecAccess ==
  /\ prog = "rec" /\ pc = "access"
  /\ IF ~faces.exists THEN exit(1, "nofaces") ELSE goto("load")
  /\ UNCHANGED <<prog, argc, fsVars, openDirs, dataVars, dimVars, model, dets, fi,
                 outVars, logVars, n2pVars, liveVars>>

\* Load with a catch block that does not exit.
Load_noExit(next) ==
  LET st == loadFaceData(faces) IN
  /\ images' = st.images /\ labels' = st.labels /\ names' = st.names
  /\ openDirs' = openDirs + st.open
  /\ goto(next)

\* The try block around loadFaceData and its catch.
Load(next) ==
  LET st == loadFaceData(faces) IN
  /\ images' = st.images /\ labels' = st.labels /\ names' = st.names
  /\ openDirs' = openDirs + st.open
  /\ IF st.thrown THEN exit(1, "load") ELSE goto(next)

RecLoad ==
  /\ prog = "rec" /\ pc = "load"
  /\ Load("dims")
  /\ UNCHANGED <<prog, argc, fsVars, dimVars, model, dets, fi, outVars, logVars, n2pVars, liveVars>>

\* int im_width = images[0].cols; int im_height = images[0].rows;
ReadDims(next) ==
  IF images # <<>>
    THEN im_width' = images[1].cols /\ im_height' = images[1].rows /\ goto(next)
    ELSE \/ crash("dims") /\ UNCHANGED dimVars
         \/ \E w, h \in GarbageDims : im_width' = w /\ im_height' = h /\ goto(next)

RecDims ==
  /\ prog = "rec" /\ pc = "dims"
  /\ ReadDims("train")
  /\ UNCHANGED <<prog, argc, fsVars, openDirs, dataVars, model, dets, fi, outVars,
                 logVars, n2pVars, liveVars>>

\* model->train(images, labels), outside any try block.
Train(imgs, lbls, next) ==
  IF trainThrows(imgs, lbls)
    THEN uncaught("train") /\ UNCHANGED model
    ELSE model' = trained(model, imgs, lbls) /\ goto(next)

RecTrain ==
  /\ prog = "rec" /\ pc = "train"
  /\ Train(images, labels, "imread")
  /\ UNCHANGED <<prog, argc, fsVars, openDirs, dataVars, dimVars, dets, fi, outVars,
                 logVars, n2pVars, liveVars>>

\* imread(fn_inimage), cvtColor (which throws on an empty image) and
\* detectMultiScale.
RecDetect ==
  /\ prog = "rec" /\ pc = "imread"
  /\ \E decodes \in BOOLEAN :
       IF ~decodes
         THEN uncaught("image") /\ UNCHANGED dets
         ELSE \E d \in Detections : dets' = d /\ goto("face")
  /\ UNCHANGED <<prog, argc, fsVars, openDirs, dataVars, dimVars, model, fi, outVars,
                 logVars, n2pVars, liveVars>>


has_outimage == argc > 5

\* The confidence the classifier reports with a prediction.
Confidences == {75}

\* One object of the information file, as the << chain writes it.
JsonObject(strName, confidence, face_i) ==
  <<Lit("{"), Lit("\"prediction\":\"")>> \o NamePieces(strName)
  \o <<Lit("\","), Lit("\"confidence\":"), Num(confidence), Lit(","),
       Lit("\"position\":"), Lit("{"), Lit("\"x\":"), Num(face_i.x), Lit(","),
       Lit("\"y\":"), Num(face_i.y), Lit("},"),
       Lit("\"size\":"), Lit("{"), Lit("\"width\":"), Num(face_i.width), Lit(","),
       Lit("\"height\":"), Num(face_i.height), Lit("}"), Lit("}")>>

\* One pass of the for loop over faces: predict, look the name up, write.
RecFace ==
  /\ prog = "rec" /\ pc = "face"
  /\ IF fi < Len(dets)
       THEN \E p \in Predictions(model), confidence \in Confidences :
              LET face_i == dets[fi + 1]
                  names1 == MapIndex(names, p)
                  strName == names1[p]
              IN /\ names' = names1
                 /\ predLog' = Append(predLog, p)
                 /\ shown' = Append(shown, [box |-> face_i, strName |-> strName])
                 /\ ssInfo' = ssInfo \o (IF fi > 0 THEN <<Lit(",")>> ELSE <<>>)
                                \o JsonObject(strName, confidence, face_i)
                 /\ fi' = fi + 1
                 /\ goto("face")
       ELSE goto("write") /\ UNCHANGED <<names, logVars, ssInfo, fi>>
  /\ UNCHANGED <<prog, argc, fsVars, openDirs, images, labels, dimVars, model, dets,
                 outFile, outImage, n2pVars, liveVars>>

\* ofsInfo.open; ssInfo >> strInfo; ofsInfo << "[" << strInfo << "]".
WriteInfo(ss) == [written |-> TRUE, content |-> <<Lit("[")>> \o extract(ss) \o <<Lit("]")>>]
NotWritten == [written |-> FALSE, content |-> <<>>]

RecWrite ==
  /\ prog = "rec" /\ pc = "write"
  /\ \E is_open \in BOOLEAN :
       IF is_open
         THEN outFile' = WriteInfo(ssInfo) /\ goto("outimage")
         ELSE exit(1, "outfile") /\ UNCHANGED outFile
  /\ UNCHANGED <<prog, argc, fsVars, openDirs, dataVars, dimVars, model, dets, fi,
                 ssInfo, outImage, logVars, n2pVars, liveVars>>

RecOutImage ==
  /\ prog = "rec" /\ pc = "outimage"
  /\ outImage' = has_outimage
  /\ return(0, "end")
  /\ UNCHANGED <<prog, argc, fsVars, openDirs, dataVars, dimVars, model, dets, fi,
                 ssInfo, outFile, logVars, n2pVars, liveVars>>

RecNext ==
  \/ RecArgs \/ RecAccess \/ RecLoad \/ RecDims \/ RecTrain \/ RecDetect
  \/ RecFace \/ RecWrite \/ RecOutImage

\* ------------------------------------------------ name-to-portraits main
SpaceImg == Entry(<<"m", " ", "y">>, "reg", 64, 64, 3, FALSE, <<>>)
PortraitListings ==
  PersonListings \cup { <<SpaceImg>>, <<ImgFile(1), SpaceImg>>, <<Broken, ImgFile(1)>> }
ProtraitTrees == Trees(PortraitListings)
DataPaths == { <<"/", "d">>, <<"d">> }

\* The for loop over the files of protraits/<name>, from item j on.
RECURSIVE usrLoop(_, _, _, _, _, _)
usrLoop(ss, firstFileFlag, dir_usrprotraits, items, types, j) ==
  IF j > Len(items) THEN ss
  ELSE IF types[j] = DIRITEM_FILE
    THEN usrLoop(ss \o (IF ~firstFileFlag THEN <<Lit(",")>> ELSE <<>>)
                    \o <<Lit("\"")>> \o dir_usrprotraits \o <<Lit("/")>>
                    \o NamePieces(items[j]) \o <<Lit("\"")>>,
                 FALSE, dir_usrprotraits, items, types, j + 1)
    ELSE usrLoop(ss, firstFileFlag, dir_usrprotraits, items, types, j + 1)

\* The for loop looking for the directory called nm, from item i on: the
\* stream it leaves and the directory handles it opens.
RECURSIVE searchLoop(_, _, _, _, _, _)
searchLoop(pd, nm, dir_protraits, items, types, i) ==
  IF i > Len(items) THEN [ss |-> <<>>, open |-> 0]
  ELSE IF nm = items[i]
    THEN IF types[i] # DIRITEM_DIR THEN [ss |-> <<>>, open |-> 0]
         ELSE LET r == traverseDirectory(AsDir(EntryNamed(pd, nm)))
                  dir_usrprotraits == dir_protraits \o <<Lit("/")>> \o NamePieces(nm)
              IN [ss |-> usrLoop(<<>>, TRUE, dir_usrprotraits, r.items, r.types, 1),
                  open |-> r.open]
    ELSE searchLoop(pd, nm, dir_protraits, items, types, i + 1)

\* The block under access(dir_protraits, 0) == 0; the results of both
\* traverseDirectory calls are not looked at.
findProtraits(pd, data, nm) ==
  IF ~pd.exists THEN [ss |-> <<>>, open |-> 0]
  ELSE LET r == traverseDirectory(pd)
           f == searchLoop(pd, nm, NamePieces(data) \o <<Lit("/protraits")>>,
                           r.items, r.types, 1)
       IN [ss |-> f.ss, open |-> r.open + f.open]

N2pArgs ==
  /\ prog = "n2p" /\ pc = "args"
  /\ IF argc # 4 THEN exit(1, "usage") ELSE goto("search")
  /\ UNCHANGED <<prog, argc, fsVars, openDirs, dataVars, dimVars, model, dets, fi,
                 outVars, logVars, n2pVars, liveVars>>

N2pSearch ==
  /\ prog = "n2p" /\ pc = "search"
  /\ LET f == findProtraits(protraits, dir_data, name) IN
       ssInfo' = f.ss /\ openDirs' = openDirs + f.open
  /\ goto("write")
  /\ UNCHANGED <<prog, argc, fsVars, dataVars, dimVars, model, dets, fi, outFile,
                 outImage, logVars, n2pVars, liveVars>>

\* N2pWrite ending like recognize-image when the file cannot be opened.
N2pWrite_exitOnError ==
  /\ prog = "n2p" /\ pc = "write"
  /\ \E is_open \in BOOLEAN :
       IF is_open
         THEN outFile' = WriteInfo(ssInfo) /\ return(0, "end")
         ELSE exit(1, "outfile") /\ UNCHANGED outFile
  /\ UNCHANGED <<prog, argc, fsVars, openDirs, dataVars, dimVars, model, dets, fi,
                 ssInfo, outImage, logVars, n2pVars, liveVars>>

N2pWrite ==
  /\ prog = "n2p" /\ pc = "write"
  /\ \E is_open \in BOOLEAN :
       outFile' = IF is_open THEN WriteInfo(ssInfo) ELSE outFile
  /\ return(0, "end")
  /\ UNCHANGED <<prog, argc, fsVars, openDirs, dataVars, dimVars, model, dets, fi,
                 ssInfo, outImage, logVars, n2pVars, liveVars>>

N2pNext == N2pArgs \/ N2pSearch \/ N2pWrite

\* ---------------------------------------------- face-collection (live) main
\* most image files one session writes before further save keys are ignored
MaxSaves == 2

NameDi == <<"d", "i">>
PersonDir(n, l) == Entry(n, "dir", 0, 0, 0, TRUE, l)
PlainFile(n) == Entry(n, "reg", 0, 0, 0, FALSE, <<>>)
\* The faces directories a session is started on.
LiveTrees ==
  { NoDir,
    Dir(TRUE, FALSE, <<>>),
    Dir(TRUE, TRUE, <<>>),
    Dir(TRUE, TRUE, <<PersonDir(NameBo, RegularListing(1))>>),
    Dir(TRUE, TRUE, <<PersonDir(NameAl, RegularListing(1)), PersonDir(NameBo, RegularListing(1))>>),
    Dir(TRUE, TRUE, <<PersonDir(NameBo, RegularListing(1)), PersonDir(NameAl, <<>>),
                      PersonDir(NameDi, RegularListing(1))>>),
    Dir(TRUE, TRUE, <<PlainFile(NameAl), PersonDir(NameBo, RegularListing(1)),
                      PersonDir(NameDi, RegularListing(2))>>),
    Dir(TRUE, TRUE, <<PersonDir(NameBo, RegularListing(1)), PersonDir(NameDi, <<ImgFile(1), Broken>>)>>) }
\* the names typed at the prompt (cin >> takes no white space)
ExpectNames == {NameAl, NameCy}
\* the sizes of the first frame: one with equal and whole scale factors, one
\* with different factors of which one is fractional
FrameSizes == { [cols |-> 640, rows |-> 480], [cols |-> 800, rows |-> 480] }
Keys == {"esc", "p", "space", "none"}

\* system("mkdir -p <dir>") for a top directory.
mkdir_p(d) == IF d.exists THEN d ELSE Dir(TRUE, TRUE, <<>>)
\* system("mkdir -p <dir>/<nm>"): the new directory shows up at place pos of
\* the enumeration; nothing happens when the name is taken.
InsertAt(q, pos, e) == SubSeq(q, 1, pos) \o <<e>> \o SubSeq(q, pos + 1, Len(q))
mkdir_usr(d, nm, pos) ==
  IF ~d.openable \/ HasEntry(d, nm) THEN d
  ELSE [d EXCEPT !.entries = InsertAt(@, pos, PersonDir(nm, <<>>))]

\* The loop that fills name2label from names, in key order; insert keeps
\* the first label of a name.
Invert(m) ==
  [n \in { m[l] : l \in DOMAIN m } |->
     CHOOSE l \in DOMAIN m : m[l] = n /\ \A k \in DOMAIN m : m[k] = n => l <= k]

\* A rescaling that applies the x factor to all four fields.
scaled_xFactorOnly(face_i, f) ==
  Rect((face_i.x * f.cols) \div STD_DETECT_FRAME_WIDTH,
       (face_i.y * f.cols) \div STD_DETECT_FRAME_WIDTH,
       (face_i.width * f.cols) \div STD_DETECT_FRAME_WIDTH,
       (face_i.height * f.cols) \div STD_DETECT_FRAME_WIDTH)

\* Rect face_i_original(x * invfscale_x, ...): the products, as doubles, cut
\* to int.
scaled(face_i, f) ==
  Rect((face_i.x * f.cols) \div STD_DETECT_FRAME_WIDTH,
       (face_i.y * f.rows) \div STD_DETECT_FRAME_HEIGHT,
       (face_i.width * f.cols) \div STD_DETECT_FRAME_WIDTH,
       (face_i.height * f.rows) \div STD_DETECT_FRAME_HEIGHT)

LiveArgs ==
  /\ prog = "live" /\ pc = "args"
  /\ IF argc # 4 THEN exit(1, "usage") ELSE goto("mkdir")
  /\ UNCHANGED <<prog, argc, fsVars, openDirs, dataVars, dimVars, model, dets, fi,
                 outVars, logVars, n2pVars, liveVars>>

\* The four mkdir -p calls and the prompt for the name.
LiveMkdir ==
  /\ prog = "live" /\ pc = "mkdir"
  /\ \E nm \in ExpectNames :
       LET f == mkdir_p(faces)
           q == mkdir_p(protraits)
       IN /\ expectName' = nm
          /\ \E pos \in 0..Len(f.entries) : faces' = mkdir_usr(f, nm, pos)
          /\ protraits' = mkdir_usr(q, nm, Len(q.entries))
  /\ goto("load")
  /\ UNCHANGED <<prog, argc, openDirs, dataVars, dimVars, model, dets, fi, outVars,
                 logVars, n2pVars, name2label, flagVars, prediction, frame, saved>>

LiveLoad ==
  /\ prog = "live" /\ pc = "load"
  /\ Load("dims")
  /\ name2label' = IF loadFaceData(faces).thrown THEN name2label ELSE Invert(names')
  /\ UNCHANGED <<prog, argc, fsVars, dimVars, model, dets, fi, outVars, logVars,
                 n2pVars, expectName, flagVars, prediction, frame, saved>>

LiveDims ==
  /\ prog = "live" /\ pc = "dims"
  /\ ReadDims("train")
  /\ UNCHANGED <<prog, argc, fsVars, openDirs, dataVars, model, dets, fi, outVars,
                 logVars, n2pVars, liveVars>>

LiveTrain ==
  /\ prog = "live" /\ pc = "train"
  /\ Train(images, labels, "capture")
  /\ UNCHANGED <<prog, argc, fsVars, openDirs, dataVars, dimVars, dets, fi, outVars,
                 logVars, n2pVars, liveVars>>

\* VideoCapture cap(deviceId) and the first frame, which sets the inverse
\* scale factors.
LiveCapture ==
  /\ prog = "live" /\ pc = "capture"
  /\ \E isOpened \in BOOLEAN :
       IF ~isOpened
         THEN return(255, "device") /\ UNCHANGED frame
         ELSE \E f \in FrameSizes : frame' = f /\ goto("frame")
  /\ UNCHANGED <<prog, argc, fsVars, openDirs, dataVars, dimVars, model, dets, fi,
                 outVars, logVars, n2pVars, expectName, name2label, flagVars,
                 prediction, saved>>

\* cap >> frame, resize, cvtColor, detectMultiScale.
LiveFrame ==
  /\ prog = "live" /\ pc = "frame"
  /\ \E d \in Detections : dets' = d
  /\ fi' = 0 /\ predLog' = <<>> /\ shown' = <<>>
  /\ goto("face")
  /\ UNCHANGED <<prog, argc, fsVars, openDirs, dataVars, dimVars, model, outVars,
                 n2pVars, expectName, name2label, flagVars, prediction, frame, saved>>

\* The head of the for loop over faces, up to model->predict.
LivePredict ==
  /\ prog = "live" /\ pc = "face"
  /\ IF fi < Len(dets)
       THEN \E p \in Predictions(model) :
              /\ prediction' = p
              /\ predLog' = Append(predLog, p)
              /\ goto("saveface")
       ELSE goto("key") /\ UNCHANGED <<prediction, predLog>>
  /\ UNCHANGED <<prog, argc, fsVars, openDirs, dataVars, dimVars, model, dets, fi,
                 outVars, n2pVars, expectName, name2label, flagVars, frame, saved,
                 shown>>

SavedFile(where, size) ==
  [where |-> where, who |-> expectName, seq |-> saveImageCount, size |-> size]

\* The face branch giving a name new to the session the label of the first
\* sample instead of -1.
LiveSaveFace_firstLabel ==
  /\ prog = "live" /\ pc = "saveface"
  /\ IF saveFaceFlag
       THEN LET face_resized == [cols |-> im_width, rows |-> im_height, channels |-> 1]
                usrLabel == IF expectName \in DOMAIN name2label
                              THEN name2label[expectName] ELSE labels[1]
            IN /\ saved' = Append(saved, SavedFile("faces", im_width))
               /\ saveImageCount' = saveImageCount + 1
               /\ images' = Append(images, face_resized)
               /\ labels' = Append(labels, usrLabel)
               /\ names' = MapInsert(names, usrLabel, expectName)
               /\ name2label' = MapInsert(name2label, expectName, usrLabel)
               /\ Train(images', labels', "saveprotrait")
               /\ saveFaceFlag' = FALSE
       ELSE /\ goto("saveprotrait")
            /\ UNCHANGED <<saved, saveImageCount, dataVars, name2label, model,
                           saveFaceFlag>>
  /\ UNCHANGED <<prog, argc, fsVars, openDirs, dimVars, dets, fi, outVars, logVars,
                 n2pVars, expectName, saveProtraitFlag, prediction, frame>>

\* The face branch without the reset of the flag.
LiveSaveFace_keepFlag ==
  /\ prog = "live" /\ pc = "saveface"
  /\ IF saveFaceFlag
       THEN LET face_resized == [cols |-> im_width, rows |-> im_height, channels |-> 1]
                usrLabel == IF expectName \in DOMAIN name2label
                              THEN name2label[expectName] ELSE -1
            IN /\ saved' = Append(saved, SavedFile("faces", im_width))
               /\ saveImageCount' = saveImageCount + 1
               /\ images' = Append(images, face_resized)
               /\ labels' = Append(labels, usrLabel)
               /\ names' = MapInsert(names, usrLabel, expectName)
               /\ name2label' = MapInsert(name2label, expectName, usrLabel)
               /\ Train(images', labels', "saveprotrait")
               /\ saveFaceFlag' = saveFaceFlag
       ELSE /\ goto("saveprotrait")
            /\ UNCHANGED <<saved, saveImageCount, dataVars, name2label, model,
                           saveFaceFlag>>
  /\ UNCHANGED <<prog, argc, fsVars, openDirs, dimVars, dets, fi, outVars, logVars,
                 n2pVars, expectName, saveProtraitFlag, prediction, frame>>

\* if (saveFaceFlag) { ... }
LiveSaveFace ==
  /\ prog = "live" /\ pc = "saveface"
  /\ IF saveFaceFlag
       THEN LET face_resized == [cols |-> im_width, rows |-> im_height, channels |-> 1]
                usrLabel == IF expectName \in DOMAIN name2label
                              THEN name2label[expectName] ELSE -1
            IN /\ saved' = Append(saved, SavedFile("faces", im_width))
               /\ saveImageCount' = saveImageCount + 1
               /\ images' = Append(images, face_resized)
               /\ labels' = Append(labels, usrLabel)
               /\ names' = MapInsert(names, usrLabel, expectName)
               /\ name2label' = MapInsert(name2label, expectName, usrLabel)
               /\ Train(images', labels', "saveprotrait")
               /\ saveFaceFlag' = FALSE
       ELSE /\ goto("saveprotrait")
            /\ UNCHANGED <<saved, saveImageCount, dataVars, name2label, model,
                           saveFaceFlag>>
  /\ UNCHANGED <<prog, argc, fsVars, openDirs, dimVars, dets, fi, outVars, logVars,
                 n2pVars, expectName, saveProtraitFlag, prediction, frame>>

\* The portrait branch with a retraining after the save, as the face
\* branch has.
LiveSaveProtrait_retrain ==
  /\ prog = "live" /\ pc = "saveprotrait"
  /\ IF saveProtraitFlag
       THEN /\ saved' = Append(saved, SavedFile("protraits", STD_PROTRAIT_SIZE))
            /\ saveImageCount' = saveImageCount + 1
            /\ saveProtraitFlag' = FALSE
            /\ model' = trained(model, images, labels)
       ELSE UNCHANGED <<saved, saveImageCount, saveProtraitFlag, model>>
  /\ goto("annotate")
  /\ UNCHANGED <<prog, argc, fsVars, openDirs, dataVars, dimVars, dets, fi,
                 outVars, logVars, n2pVars, expectName, name2label, saveFaceFlag,
                 prediction, frame>>

\* if (saveProtraitFlag) { ... }
LiveSaveProtrait ==
  /\ prog = "live" /\ pc = "saveprotrait"
  /\ IF saveProtraitFlag
       THEN /\ saved' = Append(saved, SavedFile("protraits", STD_PROTRAIT_SIZE))
            /\ saveImageCount' = saveImageCount + 1
            /\ saveProtraitFlag' = FALSE
       ELSE UNCHANGED <<saved, saveImageCount, saveProtraitFlag>>
  /\ goto("annotate")
  /\ UNCHANGED <<prog, argc, fsVars, openDirs, dataVars, dimVars, model, dets, fi,
                 outVars, logVars, n2pVars, expectName, name2label, saveFaceFlag,
                 prediction, frame>>

\* rectangle, names[prediction], putText; then ++i.
LiveAnnotate ==
  /\ prog = "live" /\ pc = "annotate"
  /\ LET names1 == MapIndex(names, prediction) IN
       /\ names' = names1
       /\ shown' = Append(shown, [box |-> scaled(dets[fi + 1], frame),
                                  strName |-> names1[prediction]])
  /\ fi' = fi + 1
  /\ goto("face")
  /\ UNCHANGED <<prog, argc, fsVars, openDirs, images, labels, dimVars, model, dets,
                 outVars, predLog, n2pVars, expectName, name2label, flagVars,
                 prediction, frame, saved>>

\* imshow, waitKey(1) and the switch on the key.
LiveKey ==
  /\ prog = "live" /\ pc = "key"
  /\ \E key \in Keys :
       /\ key \in {"p", "space"} => saveImageCount < MaxSaves
       /\ saveProtraitFlag' = IF key = "p" THEN TRUE ELSE saveProtraitFlag
       /\ saveFaceFlag' = IF key = "space" THEN TRUE ELSE saveFaceFlag
       /\ IF key = "esc" THEN return(0, "end") ELSE goto("frame")
  /\ UNCHANGED <<prog, argc, fsVars, openDirs, dataVars, dimVars, model, dets, fi,
                 outVars, logVars, n2pVars, expectName, name2label, saveImageCount,
                 prediction, frame, saved>>

LiveNext ==
  \/ LiveArgs \/ LiveMkdir \/ LiveLoad \/ LiveDims \/ LiveTrain \/ LiveCapture
  \/ LiveFrame \/ LivePredict \/ LiveSaveFace \/ LiveSaveProtrait \/ LiveAnnotate
  \/ LiveKey

\* ---------------------------------------------------------- specification
RecArgcs == {4, 5, 6}

InitCommon ==
  /\ pc = "args" /\ term = "none" /\ exitStatus = 0
  /\ openDirs = 0
  /\ images = <<>> /\ labels = <<>> /\ names = EmptyMap
  /\ im_width = 0 /\ im_height = 0
  /\ model = Untrained
  /\ dets = <<>> /\ fi = 0
  /\ ssInfo = <<>> /\ outFile = NotWritten /\ outImage = FALSE
  /\ predLog = <<>>
  /\ expectName = <<>> /\ name2label = EmptyMap
  /\ saveFaceFlag = FALSE /\ saveProtraitFlag = FALSE /\ saveImageCount = 0
  /\ prediction = -1
  /\ frame = [cols |-> 0, rows |-> 0]
  /\ saved = <<>> /\ shown = <<>> /\ cause = "none"

InitRec ==
  /\ prog = "rec"
  /\ argc \in RecArgcs
  /\ faces \in FacesTrees
  /\ protraits = NoDir
  /\ dir_data = <<>> /\ name = <<>>
  /\ InitCommon

N2pArgcs == {3, 4, 5}

InitN2p ==
  /\ prog = "n2p"
  /\ argc \in N2pArgcs
  /\ faces = NoDir
  /\ protraits \in (IF argc = 4 THEN ProtraitTrees ELSE {NoDir})
  /\ dir_data \in (IF argc = 4 THEN DataPaths ELSE {<<>>})
  /\ name \in (IF argc = 4 THEN NamePool ELSE {<<>>})
  /\ InitCommon

LiveArgcs == {3, 4}

InitLive ==
  /\ prog = "live"
  /\ argc \in LiveArgcs
  /\ faces \in (IF argc = 4 THEN LiveTrees ELSE {NoDir})
  /\ protraits = NoDir
  /\ dir_data = <<>> /\ name = <<>>
  /\ InitCommon

Init == InitRec \/ InitN2p \/ InitLive

Next == RecNext \/ N2pNext \/ LiveNext

Spec == Init /\ [][Next]_vars

\* One program at a time.
SpecRec == InitRec /\ [][RecNext]_vars
SpecN2p == InitN2p /\ [][N2pNext]_vars
SpecLive == InitLive /\ [][LiveNext]_vars


\* ================================================================= claims
\* Helpers of the claims: what a layout holds, counted without the loader.
Visible(e) == e.name[1] # "."
\* the places under faces/ that hold a person directory
PersonPlaces(fd) ==
  { i \in DOMAIN fd.entries : Visible(fd.entries[i]) /\ S_ISDIR(fd.entries[i].kind) }
\* the places in a person directory that hold a regular file
FilePlaces(e) ==
  { j \in DOMAIN e.entries : Visible(e.entries[j]) /\ S_ISREG(e.entries[j].kind) }
SamplePlaces(fd) ==
  UNION { { <<i, j>> : j \in FilePlaces(fd.entries[i]) } : i \in PersonPlaces(fd) }
\* A two-level faces/<name>/<image> layout: person directories only, image
\* files only.
ValidLayout(fd) ==
  /\ fd.exists /\ fd.openable
  /\ \A e \in Range(fd.entries) :
       /\ Visible(e) /\ e.kind = "dir" /\ e.openable
       /\ \A f \in Range(e.entries) : Visible(f) /\ f.kind = "reg" /\ f.w > 0 /\ f.h > 0
Canonical(img) == img.cols = STD_FACE_REC_SIZE /\ img.rows = STD_FACE_REC_SIZE
\* the state loadFaceData returns to, in either orchestrator
Loaded == prog \in {"rec", "live"} /\ pc = "dims"

\* C1 (as claimed): on a two-level layout of N person directories with M_i
\* image files each, M_i >= 0, the load returns sum(M_i) samples, N distinct
\* labels and only 64x64 images.
C1_Original ==
  (Loaded /\ ValidLayout(faces)) =>
    /\ Len(images) = Cardinality(SamplePlaces(faces))
    /\ Cardinality(Range(labels)) = Len(faces.entries)
    /\ \A k \in DOMAIN images : Canonical(images[k])

\* C1 (amended): whenever the load succeeds it returns one 64x64 sample per
\* visible regular file of a person directory, and as many distinct labels
\* as there are person directories holding at least one such file.
C1_LoadCounts ==
  Loaded =>
    /\ Len(images) = Cardinality(SamplePlaces(faces))
    /\ Len(labels) = Len(images)
    /\ Cardinality(Range(labels))
         = Cardinality({ i \in PersonPlaces(faces) : FilePlaces(faces.entries[i]) # {} })
    /\ \A k \in DOMAIN images : Canonical(images[k]) /\ images[k].channels = 1

\* C1 witness: a valid layout of two person directories, one of them empty,
\* has been loaded.
C1_Witness ==
  /\ Loaded /\ ValidLayout(faces)
  /\ Len(faces.entries) = 2 /\ Len(images) = 2
  /\ \E e \in Range(faces.entries) : e.entries = <<>>

\* the person directories of a listing, in enumeration order
IsPersonDir(e) == Visible(e) /\ S_ISDIR(e.kind)
PersonSeq(fd) == SelectSeq(fd.entries, IsPersonDir)
VisibleSeq(fd) == SelectSeq(fd.entries, Visible)

\* C2 (as claimed): the k-th person directory in enumeration order has
\* label k-1, whatever else the listing holds.
C2_Original ==
  Loaded =>
    \A l \in DOMAIN names :
      /\ l + 1 \in DOMAIN PersonSeq(faces)
      /\ PersonSeq(faces)[l + 1].name = names[l]

\* C2 (amended): a person directory has as label its 0-based place among
\* all visible entries of the listing, files and directories alike, and
\* the samples carry these labels in enumeration order.
C2_LabelIsPlace ==
  Loaded =>
    /\ \A l \in DOMAIN names :
         /\ l + 1 \in DOMAIN VisibleSeq(faces)
         /\ IsPersonDir(VisibleSeq(faces)[l + 1])
         /\ VisibleSeq(faces)[l + 1].name = names[l]
    /\ DOMAIN names = Range(labels)
    /\ \A a, b \in DOMAIN labels : a <= b => labels[a] <= labels[b]
    /\ \A p \in DOMAIN VisibleSeq(faces) :
         (IsPersonDir(VisibleSeq(faces)[p]) /\ FilePlaces(VisibleSeq(faces)[p]) # {})
           => p - 1 \in DOMAIN names

\* C2 witness: a person directory listed after a plain file has been
\* loaded with label 1.
C2_Witness ==
  /\ Loaded
  /\ Len(VisibleSeq(faces)) = 2 /\ ~IsPersonDir(VisibleSeq(faces)[1])
  /\ DOMAIN names = {1}

\* some listing the load needs fails: faces itself, an entry of it that
\* cannot be stat'ed, a person directory or an entry of one
ListingFails(fd) ==
  \/ opendirFails(fd)
  \/ \E e \in Range(fd.entries) :
       /\ Visible(e)
       /\ \/ stat(e) = -1
          \/ S_ISDIR(e.kind) /\ ~e.openable
          \/ S_ISDIR(e.kind) /\ \E f \in Range(e.entries) : Visible(f) /\ stat(f) = -1

\* C3: when a listing fails the orchestrator never gets past the load: it
\* trains nothing, detects nothing and ends with a non-zero exit status.
C3_FailedLoadAborts ==
  (prog \in {"rec", "live"} /\ ListingFails(faces)) =>
    \/ pc \in {"args", "mkdir", "access", "load"}
    \/ /\ pc = "done" /\ exitStatus # 0 /\ term = "exit"
       /\ ~model.trained /\ dets = <<>> /\ predLog = <<>>

\* C3 witness: a load that had stored a sample when a later listing failed
\* has ended the program with status 1.
C3_Witness ==
  /\ prog \in {"rec", "live"} /\ pc = "done" /\ cause = "load"
  /\ ListingFails(faces) /\ images # <<>> /\ exitStatus = 1


\* C4 (as claimed): both orchestrators read the first sample's size and
\* train only on a dataset of at least one sample and two labels.
C4_TrainGuarded ==
  (prog \in {"rec", "live"} /\ pc \in {"dims", "train"}) =>
    Len(images) >= 1 /\ Cardinality(Range(labels)) >= 2

\* C5 (as claimed): enrolling a face for a name new to the session adds one
\* sample and one registry entry and retrains on the whole dataset, within
\* the step that handles the face.
C5_EnrollNewPerson ==
  [][(prog = "live" /\ pc = "saveface" /\ saveFaceFlag
       /\ expectName \notin DOMAIN name2label)
      => /\ Len(images') = Len(images) + 1
         /\ Cardinality(DOMAIN names') = Cardinality(DOMAIN names) + 1
         /\ model'.runs = model.runs + 1
         /\ model'.labels = labels' /\ model'.n = Len(images')]_vars

\* Reading the information file back.
IsLit(p, lit) == p.t = "lit" /\ p.s = lit
\* the places where an object of the array is closed
ObjectCloses(c) == { j \in DOMAIN c : j > 1 /\ IsLit(c[j], "}") /\ IsLit(c[j - 1], "}") }
\* the numbers that follow the key, in order
RECURSIVE valuesAfter(_, _)
valuesAfter(c, key) ==
  IF Len(c) < 2 THEN <<>>
  ELSE IF IsLit(c[1], key) /\ c[2].t = "num"
    THEN <<c[2].v>> \o valuesAfter(Tail(c), key)
    ELSE valuesAfter(Tail(c), key)
\* the quoted strings, in order
RECURSIVE strings(_, _, _)
strings(c, inside, cur) ==
  IF c = <<>> THEN <<>>
  ELSE IF IsLit(Head(c), "\"")
    THEN IF inside THEN <<cur>> \o strings(Tail(c), FALSE, <<>>)
         ELSE strings(Tail(c), TRUE, <<>>)
    ELSE strings(Tail(c), inside, IF inside THEN Append(cur, Head(c)) ELSE cur)
EmptyArray == <<Lit("["), Lit("]")>>

\* C6 (as claimed): for k detected rectangles recognize-image classifies k
\* times and writes an array of k objects, the i-th for the i-th
\* rectangle; [] for k = 0.
C6_OneObjectPerFace ==
  (prog = "rec" /\ outFile.written) =>
    LET c == outFile.content
        k == Len(dets)
    IN /\ Len(predLog) = k
       /\ Head(c) = Lit("[") /\ c[Len(c)] = Lit("]")
       /\ Cardinality(ObjectCloses(c)) = k
       /\ valuesAfter(c, "\"x\":") = [i \in 1..k |-> dets[i].x]
       /\ valuesAfter(c, "\"y\":") = [i \in 1..k |-> dets[i].y]
       /\ valuesAfter(c, "\"width\":") = [i \in 1..k |-> dets[i].width]
       /\ valuesAfter(c, "\"height\":") = [i \in 1..k |-> dets[i].height]
       /\ k = 0 => c = EmptyArray

\* a name lookup for a label the registry does not hold
LookupMiss ==
  \/ prog = "live" /\ pc = "annotate" /\ prediction \notin DOMAIN names
  \/ /\ prog = "rec" /\ pc = "face" /\ Len(predLog') = Len(predLog) + 1
     /\ predLog'[Len(predLog')] \notin DOMAIN names

\* C7: a lookup of a label the registry does not hold reports the empty
\* name for the face and the program goes on to the next face.
C7_MissYieldsEmptyName ==
  [][LookupMiss
      => /\ term' = "none" /\ pc' = "face" /\ fi' = fi + 1
         /\ Len(shown') = Len(shown) + 1
         /\ shown'[Len(shown')].strName = <<>>]_vars

\* C7 witness: recognize-image has ended with status 0 after reporting a
\* face whose predicted label the registry did not hold.
C7_Witness ==
  /\ prog = "rec" /\ pc = "done" /\ term = "return" /\ exitStatus = 0
  /\ \E i \in DOMAIN shown :
       predLog[i] \notin Range(labels) /\ shown[i].strName = <<>>

\* the regular files of a directory, in enumeration order
IsReg(e) == e.kind = "reg"
\* the path name-to-portraits writes for the file called fn
PortraitPath(fn) ==
  NamePieces(dir_data) \o <<Lit("/protraits"), Lit("/")>> \o NamePieces(name)
  \o <<Lit("/")>> \o NamePieces(fn)

\* C8 (as claimed): [] without a directory called <name>; otherwise one
\* path per regular file of protraits/<name>, in enumeration order.  Stated
\* for an absolute data path, a listing free of status failures and a
\* target that holds visible regular files only.
C8_PathsPerFile ==
  (prog = "n2p" /\ outFile.written /\ Head(dir_data) = "/") =>
    LET c == outFile.content IN
    /\ (~\E e \in Range(protraits.entries) : e.name = name /\ e.kind = "dir")
         => c = EmptyArray
    /\ \A e \in Range(protraits.entries) :
         ( /\ e.name = name /\ Visible(e) /\ e.kind = "dir" /\ e.openable
           /\ protraits.openable
           /\ \A t \in Range(protraits.entries) : stat(t) = 0
           /\ \A f \in Range(e.entries) : Visible(f) /\ IsReg(f) )
         => /\ Head(c) = Lit("[") /\ c[Len(c)] = Lit("]")
            /\ strings(c, FALSE, <<>>)
                 = [j \in 1..Len(e.entries) |-> PortraitPath(e.entries[j].name)]

\* C9 (as claimed): recognize-image ends with status 1 when it meets a
\* fatal condition and with status 0 otherwise.  Runs ended by the reading
\* of images[0] or by the training of a dataset too small are left out.
C9_ExitStatus ==
  (prog = "rec" /\ pc = "done" /\ cause \notin {"dims", "train"}) =>
    IF cause \in {"usage", "nofaces", "load", "image", "outfile"}
      THEN exitStatus = 1
      ELSE exitStatus = 0

\* C10 (as claimed): name-to-portraits always ends with status 0.
C10_AlwaysZero == (prog = "n2p" /\ pc = "done") => exitStatus = 0

\* C10 (amended): name-to-portraits ends with status 0 whenever it is given
\* three arguments, whatever the file system holds, and with status 1 on a
\* wrong number of arguments.
C10_ZeroUnlessUsage ==
  (prog = "n2p" /\ pc = "done") => exitStatus = (IF argc = 4 THEN 0 ELSE 1)

\* C10 witness: name-to-portraits has ended with status 0 although a
\* listing failed and the output file could not be opened.
C10_Witness ==
  /\ prog = "n2p" /\ pc = "done" /\ argc = 4 /\ exitStatus = 0
  /\ ~outFile.written /\ ListingFails(protraits)


\* C11: in a live session every label of the dataset has an entry in the
\* label registry after every step, and no step removes a registry entry
\* or changes its name.
C11_RegistryAppendOnly ==
  [][prog = "live"
      => /\ Range(labels') \subseteq DOMAIN names'
         /\ \A l \in DOMAIN names : l \in DOMAIN names' /\ names'[l] = names[l]]_vars

\* C11 witness: a session that has looked up a label the registry did not
\* hold, enrolled a face for a name new to the database and saved a
\* portrait.
C11_Witness ==
  /\ prog = "live" /\ pc = "key"
  /\ -1 \in DOMAIN names /\ names[-1] = <<>>
  /\ expectName \in DOMAIN name2label /\ name2label[expectName] = -1
  /\ \E i \in DOMAIN saved : saved[i].where = "protraits"


\* the rectangle fields written to c, in order, agree with the detections
BoxesOf(c) ==
  [x |-> valuesAfter(c, "\"x\":"), y |-> valuesAfter(c, "\"y\":"),
   width |-> valuesAfter(c, "\"width\":"), height |-> valuesAfter(c, "\"height\":")]
\* the first n detections, field by field
DetFields(n) ==
  [x |-> [i \in 1..n |-> dets[i].x], y |-> [i \in 1..n |-> dets[i].y],
   width |-> [i \in 1..n |-> dets[i].width], height |-> [i \in 1..n |-> dets[i].height]]
\* Batch path: the boxes formatted so far and the boxes drawn are the
\* detector's rectangles, and every box the file holds is the rectangle of
\* its place.
BatchBoxesUnchanged ==
  prog = "rec" =>
    /\ \A i \in DOMAIN shown : shown[i].box = dets[i]
    /\ BoxesOf(ssInfo) = DetFields(Len(shown))
    /\ outFile.written =>
         LET b == BoxesOf(outFile.content) IN
         /\ \A i \in DOMAIN b.x : b.x[i] = dets[i].x
         /\ \A i \in DOMAIN b.y : b.y[i] = dets[i].y
         /\ \A i \in DOMAIN b.width : b.width[i] = dets[i].width
         /\ \A i \in DOMAIN b.height : b.height[i] = dets[i].height
\* the detections lie inside the detection frame
InsideFrame(r) ==
  /\ 0 <= r.x /\ 0 <= r.y /\ 0 < r.width /\ 0 < r.height
  /\ r.x + r.width <= STD_DETECT_FRAME_WIDTH
  /\ r.y + r.height <= STD_DETECT_FRAME_HEIGHT
\* v is the product of n with the factor size / std, exactly
ExactProduct(v, n, size, std) == v * std = n * size
\* v is that product with its fraction cut off
CutProduct(v, n, size, std) == v * std <= n * size /\ n * size < (v + 1) * std

\* C12 (as claimed): the batch path reports the detector's rectangle
\* unchanged; the live path reports x and width times the inverse x factor
\* and y and height times the inverse y factor.
C12_Original ==
  /\ BatchBoxesUnchanged
  /\ prog = "live" =>
       \A i \in DOMAIN shown :
         InsideFrame(dets[i]) =>
           /\ ExactProduct(shown[i].box.x, dets[i].x, frame.cols, STD_DETECT_FRAME_WIDTH)
           /\ ExactProduct(shown[i].box.width, dets[i].width, frame.cols, STD_DETECT_FRAME_WIDTH)
           /\ ExactProduct(shown[i].box.y, dets[i].y, frame.rows, STD_DETECT_FRAME_HEIGHT)
           /\ ExactProduct(shown[i].box.height, dets[i].height, frame.rows, STD_DETECT_FRAME_HEIGHT)

\* C12 (amended): the batch path reports the detector's rectangle
\* unchanged; the live path reports each product with its fraction cut
\* off, the factors being those of the first frame.
C12_BoxesScaledAndCut ==
  /\ BatchBoxesUnchanged
  /\ prog = "live" =>
       \A i \in DOMAIN shown :
         InsideFrame(dets[i]) =>
           /\ CutProduct(shown[i].box.x, dets[i].x, frame.cols, STD_DETECT_FRAME_WIDTH)
           /\ CutProduct(shown[i].box.width, dets[i].width, frame.cols, STD_DETECT_FRAME_WIDTH)
           /\ CutProduct(shown[i].box.y, dets[i].y, frame.rows, STD_DETECT_FRAME_HEIGHT)
           /\ CutProduct(shown[i].box.height, dets[i].height, frame.rows, STD_DETECT_FRAME_HEIGHT)

\* C12 witness: the live session has reported a box for a rectangle inside
\* the frame whose scaled width is not a whole number, with different x and
\* y factors.
C12_Witness ==
  /\ prog = "live" /\ shown # <<>>
  /\ frame.cols * STD_DETECT_FRAME_HEIGHT # frame.rows * STD_DETECT_FRAME_WIDTH
  /\ \E i \in DOMAIN shown :
       /\ InsideFrame(dets[i])
       /\ (dets[i].width * frame.cols) % STD_DETECT_FRAME_WIDTH # 0


\* the directories the programs may list: the two top directories and what
\* their entries that are not hidden name
DirsOfState ==
  {faces, protraits}
  \cup { AsDir(e) : e \in { t \in Range(faces.entries) \cup Range(protraits.entries) :
                                Visible(t) } }
\* the names of the entries that are not hidden, in enumeration order
NamesOf(es) == [i \in DOMAIN es |-> es[i].name]
VisibleNames(d) == NamesOf(SelectSeq(d.entries, Visible))
OnlyHidden(d) == \A e \in Range(d.entries) : ~Visible(e)

\* the program has listed a directory
Catalogued == openDirs > 0

\* C13 (as claimed): for a directory that can be opened, traverseDirectory
\* returns no name that begins with '.', returns every other entry exactly
\* once, and returns success with no items when every entry is hidden.
C13_EveryVisibleEntryOnce ==
  \A d \in DirsOfState :
    (Catalogued /\ d.exists /\ d.openable) =>
      LET r == traverseDirectory(d) IN
      /\ \A i \in DOMAIN r.items : r.items[i][1] # "."
      /\ r.items = VisibleNames(d)
      /\ OnlyHidden(d) => r.rc = 0 /\ r.items = <<>>


\* C14: the step that consumes an enroll-portrait intent leaves the
\* dataset, both registries and the model as they are; it writes one
\* image of the portrait size under protraits/<expectName>, numbered with
\* the session sequence number, advances that number and clears the
\* intent.
C14_PortraitLeavesDataset ==
  [][(prog = "live" /\ pc = "saveprotrait" /\ saveProtraitFlag)
      => /\ UNCHANGED <<images, labels, names, name2label, model>>
         /\ saved' = Append(saved, [where |-> "protraits", who |-> expectName,
                                    seq |-> saveImageCount, size |-> STD_PROTRAIT_SIZE])
         /\ saveImageCount' = saveImageCount + 1
         /\ ~saveProtraitFlag']_vars

\* C14 witness: a portrait has just been saved in a session whose model has
\* been trained once, at start.
C14_Witness ==
  /\ prog = "live" /\ pc = "annotate"
  /\ saved # <<>> /\ saved[Len(saved)].where = "protraits"
  /\ saveImageCount = Len(saved) /\ ~saveProtraitFlag
  /\ model.trained /\ model.runs = 1 /\ model.n = Len(images)


\* a symbolic link or a special file
LinkOrSpecial(e) == e.kind \notin {"reg", "dir"}

\* C15 (as claimed): for a directory that can be opened, the listing
\* succeeds and every entry that is a symbolic link or a special file has
\* the type Other, whatever a link points to.
C15_LinksAreOther ==
  \A d \in DirsOfState :
    (Catalogued /\ d.exists /\ d.openable) =>
      LET r == traverseDirectory(d)
          vis == SelectSeq(d.entries, Visible)
      IN /\ r.rc = 0
         /\ Len(r.types) = Len(vis)
         /\ \A i \in DOMAIN vis :
              LinkOrSpecial(vis[i]) => r.types[i] = DIRITEM_OTHER


\* C16 (as claimed): no directory handle is open once a catalog call has
\* returned, so the process holds none between its steps.
C16_HandlesReleased == openDirs = 0


\* the samples the session started with
LoadedCount == Len(loadFaceData(faces).labels)
\* the person a sample belongs to: the person directory it was loaded from,
\* or the name the session enrols
OwnerOf(k) ==
  IF k <= LoadedCount THEN VisibleSeq(faces)[labels[k] + 1].name ELSE expectName
\* the live session holds a loaded dataset
InSession == prog = "live" /\ pc \notin {"args", "mkdir", "load"}

\* C17: in a live session two samples carry the same label exactly when
\* they belong to the same person, so a person enrolled anew never shares a
\* label with another person and repeated enrolments reuse the label.
C17_OneLabelPerPerson ==
  InSession =>
    \A i, j \in DOMAIN labels : (OwnerOf(i) = OwnerOf(j)) <=> (labels[i] = labels[j])

\* C17 witness: a name without samples at load has been enrolled twice next
\* to two loaded persons.
C17_Witness ==
  /\ InSession /\ pc = "key"
  /\ Len(labels) = LoadedCount + 2
  /\ \A k \in 1..LoadedCount : OwnerOf(k) # expectName
  /\ Cardinality({ OwnerOf(k) : k \in 1..LoadedCount }) >= 2


\* the steps that consume an intent
ConsumesFace == pc = "saveface" /\ saveFaceFlag
ConsumesProtrait == pc = "saveprotrait" /\ saveProtraitFlag
\* the frame loop of the live session
InLoop == prog = "live" /\ pc \in {"frame", "face", "saveface", "saveprotrait", "annotate", "key"}

\* C18: in the frame loop an intent stays set until its branch runs, which
\* happens for the first rectangle of a frame only; that step appends one
\* sample and retrains once (face) or saves one image (portrait) and clears
\* the intent; no other step of the loop touches the dataset, the model or
\* the saved files.
C18_IntentConsumedOnce ==
  [][InLoop =>
      /\ (saveFaceFlag /\ ~ConsumesFace) => saveFaceFlag'
      /\ (saveProtraitFlag /\ ~ConsumesProtrait) => saveProtraitFlag'
      /\ ConsumesFace =>
           /\ fi = 0 /\ ~saveFaceFlag'
           /\ Len(images') = Len(images) + 1 /\ Len(labels') = Len(labels) + 1
           /\ model'.runs = model.runs + 1
           /\ Len(saved') = Len(saved) + 1
      /\ ConsumesProtrait =>
           /\ fi = 0 /\ ~saveProtraitFlag'
           /\ Len(saved') = Len(saved) + 1
           /\ UNCHANGED <<images, labels, model>>
      /\ (~ConsumesFace /\ ~ConsumesProtrait) =>
           UNCHANGED <<images, labels, model, saved>>]_vars

\* C18 witness: a frame with two rectangles has been processed to its end
\* and the session holds exactly one enrolled sample, one saved file and
\* one retraining, the intent cleared.
C18_Witness ==
  /\ prog = "live" /\ pc = "key"
  /\ Len(dets) = 2 /\ fi = 2
  /\ ~saveFaceFlag
  /\ Len(images) = LoadedCount + 1 /\ Len(saved) = 1 /\ saved[1].where = "faces"
  /\ model.runs = 2


\* C19 (as claimed): in a live session the label registry maps the label of
\* every name in name2label back to that name.
C19_RegistriesInverse ==
  prog = "live" =>
    \A n \in DOMAIN name2label :
      name2label[n] \in DOMAIN names /\ names[name2label[n]] = n


====
